---- MODULE Spec2Model ----
(***************************************************************************)
(* Model of the two sketches of the repository:                            *)
(*   NumberFormatGame.ino           the quiz game and its EEPROM high      *)
(*                                  score board                            *)
(*   Door_Operation_With_RFID.ino   the RFID door controller               *)
(* The sketches share nothing; each has its own specification below, and   *)
(* the variables of the other sketch stay at their initial values.         *)
(***************************************************************************)
EXTENDS Integers, Sequences, FiniteSets, TLC

VARIABLES
  \* ---- NumberFormatGame.ino
  eeprom,        \* EEPROM cells 0..5, one unsigned byte each
  score,         \* int score
  pc,            \* position of the sketch in loop() / debugMode()
  depth,         \* number of debugMode() frames on the call stack
  debugEnabled,  \* whether the call of debugMode() in loop() is compiled in
  old,           \* EEPROM contents when the last ledger operation began
  log,           \* what the last ledger operation did, in order
  shown,         \* the five values last printed under "High scores: "
  lastOp,        \* the last ledger operation of this pass of loop()
  calls,         \* showHighScores() calls made in this pass of loop()
  answer,        \* String answer
  headerLen,     \* int headerLen
  asked,         \* the question on the display: the locals of printQuestion()
  input,         \* String input of getInput()
  keysSeen,      \* the keys getInput() has read in this call, in order
  verdict,       \* what gameLoop() last printed: "Correct!" or "Incorrect!"
  right,         \* answers judged correct in this pass of loop()
  \* ---- Door_Operation_With_RFID.ino
  dpc,           \* position of the sketch in setup() / loop() / door_status()
  servo,         \* the angle last written to the servo (-1: none yet)
  pos,           \* int pos
  timeout,       \* int timeout of door_status()
  pirStat,       \* int pirStat: the last reading of the PIR sensor
  lowRun,        \* polls that read no motion in a row, since the door opened
  moved,         \* a poll has read motion since the door opened
  offline_timer, \* int offline_timer of connect_wifi()
  checks,        \* WiFi.status() checks made by connect_wifi()
  card,          \* the card of this pass of loop() and what succeeded on it
  smashed,       \* strcpy() ran past name_first in this pass of loop()
  dtrace         \* what this pass of loop() did, in order

quizVars == <<answer, headerLen, asked, input, keysSeen, verdict, right>>

gameVars == <<eeprom, score, pc, depth, debugEnabled, old, log, shown, lastOp, calls,
              quizVars>>

doorVars == <<dpc, servo, pos, timeout, pirStat, lowRun, moved, offline_timer, checks,
              card, smashed, dtrace>>

vars == <<gameVars, doorVars>>

\* ------------------------------------------------------------------ bounds

\* Largest score a session of the game model reaches.
MaxScore == 11

\* Deepest nesting of debugMode() -> loop() -> debugMode() modelled.
MaxDepth == 2

\* ------------------------------------------------------- NumberFormatGame

\* int highscore[5] = {10,7,5,4,2};
highscore == <<10, 7, 5, 4, 2>>

\* The EEPROM addresses the sketch touches: the five slots and cell 5.
Addrs == 0..5

\* The keys of the 4x4 keypad; "none" is NO_KEY.
Keys == {"none", "*", "#", "1", "0", "A"}

\* The five leaderboard slots of an EEPROM image, rank 0 first.
Slots(e) == [i \in 1..5 |-> e[i - 1]]

\* EEPROM.read(a): the byte stored at a.
EepromRead(e, a) == e[a]

\* EEPROM.write(a, v): the value is converted to uint8_t.
EepromWrite(st, a, v) ==
  [st EXCEPT !.mem = [st.mem EXCEPT ![a] = v % 256],
             !.log = Append(st.log, <<"write", a, v % 256>>)]

\* showHighScores(), lines 280-285: the "New High Score!" notification.
Notify(st, s) ==
  IF s > EepromRead(st.mem, 5)
    THEN [st EXCEPT !.log = Append(st.log, <<"lcd", "New High Score!">>)]
    ELSE st

\* A plausible slip: a score that only ties a slot also takes it.
BeatsOrTies(s, v) == s >= v

\* showHighScores(), line 289: if(score > EEPROM.read(i)).
Beats(s, v) == s > v

\* A plausible slip: the slots above rank 4 keep the value of line 291.
ScanWriteNoScore(st, s, i) ==
  IF i < 4 THEN EepromWrite(st, i, i + 1) ELSE EepromWrite(st, i, s)

\* A plausible slip: the shift the comment of the design asks for, the old
\* value moved one slot down, without the guard i < 4.
ScanWriteShift(st, s, i) ==
  EepromWrite(EepromWrite(st, i + 1, EepromRead(st.mem, i)), i, s)

\* One pass of the body of the for loop of showHighScores(), lines 291-292,
\* taken when score > EEPROM.read(i).
ScanWrite(st, s, i) ==
  EepromWrite(IF i < 4 THEN EepromWrite(st, i, i + 1) ELSE st, i, s)

\* A plausible slip: no else {break;}, every slot is compared.
RECURSIVE ScanNoBreak(_, _, _)
ScanNoBreak(st, s, i) ==
  IF i < 0 THEN st
  ELSE IF Beats(s, EepromRead(st.mem, i))
         THEN ScanNoBreak(ScanWrite(st, s, i), s, i - 1)
         ELSE ScanNoBreak(st, s, i - 1)

\* showHighScores(), lines 287-295: for(int i = 4; i >= 0; i--).
RECURSIVE Scan(_, _, _)
Scan(st, s, i) ==
  IF i < 0 THEN st
  ELSE IF Beats(s, EepromRead(st.mem, i))
         THEN Scan(ScanWrite(st, s, i), s, i - 1)
         ELSE st

\* A plausible slip: a display pass that stores what it prints.
RenderStoring(st) ==
  LET w == EepromWrite(st, 4, 0) IN
  [w EXCEPT !.shown = [i \in 1..5 |-> EepromRead(w.mem, i - 1)]]

\* showHighScores(), lines 297-304: print the five slots.
Render(st) ==
  [st EXCEPT !.shown = [i \in 1..5 |-> EepromRead(st.mem, i - 1)]]

\* showHighScores() as a whole, on EEPROM image e with score s.
showHighScores(e, s) ==
  Render(Scan(Notify([mem |-> e, log |-> <<>>, shown |-> <<>>], s), s, 4))

\* A plausible slip: for (int i = 0; i < 4; i++).
RECURSIVE ResetFromShort(_, _)
ResetFromShort(st, i) ==
  IF i < 4 THEN ResetFromShort(EepromWrite(st, i, highscore[i + 1]), i + 1) ELSE st

\* debugMode(), lines 262-264: the reset writes.
RECURSIVE ResetFrom(_, _)
ResetFrom(st, i) ==
  IF i < 5 THEN ResetFrom(EepromWrite(st, i, highscore[i + 1]), i + 1) ELSE st

ResetScores(e) == ResetFrom([mem |-> e, log |-> <<>>, shown |-> <<>>], 0)

\* EEPROM contents at power-up: the sketch never seeds them, so they are
\* whatever the cells hold (255 in an erased EEPROM).
InitBoards ==
  { highscore,
    <<255, 255, 255, 255, 255>>,
    <<0, 0, 0, 0, 0>>,
    <<2, 4, 5, 7, 10>>,
    <<9, 9, 3, 3, 1>>,
    <<2, 9, 3, 3, 1>> }

InitCell5 == {0, 255}

InitEeproms ==
  { [a \in Addrs |-> IF a < 5 THEN b[a + 1] ELSE c] : b \in InitBoards, c \in InitCell5 }

\* The state after setup(). The source has the call of debugMode() in loop()
\* commented out (lines 90-93); both builds are modelled, the one with the
\* call and the one without.
GameInit ==
  /\ eeprom \in InitEeproms
  /\ score = 0
  /\ pc = "loop"
  /\ depth = 0
  /\ debugEnabled \in BOOLEAN
  /\ old = eeprom
  /\ log = <<>>
  /\ shown = <<>>
  /\ lastOp = "none"
  /\ calls = 0
  /\ answer = <<>>
  /\ headerLen = 0
  /\ asked = [q |-> 0, a |-> 0, idx |-> 0, text |-> <<>>]
  /\ input = <<>>
  /\ keysSeen = <<>>
  /\ verdict = "none"
  /\ right = 0

\* A plausible slip: score = 0 left out of loop().
LoopEntryNoReset ==
  /\ UNCHANGED doorVars
  /\ pc = "loop"
  /\ score' = score
  /\ pc' = "waitKey"
  /\ old' = eeprom
  /\ log' = <<>>
  /\ lastOp' = "none"
  /\ calls' = 0
  /\ right' = 0
  /\ UNCHANGED <<eeprom, depth, debugEnabled, shown>>
  /\ UNCHANGED <<answer, headerLen, asked, input, keysSeen, verdict>>

\* loop(), lines 80-81: a pass of loop() begins.
LoopEntry ==
  /\ UNCHANGED doorVars
  /\ pc = "loop"
  /\ score' = 0
  /\ pc' = "waitKey"
  /\ old' = eeprom
  /\ log' = <<>>
  /\ lastOp' = "none"
  /\ calls' = 0
  /\ right' = 0
  /\ UNCHANGED <<eeprom, depth, debugEnabled, shown>>
  /\ UNCHANGED <<answer, headerLen, asked, input, keysSeen, verdict>>

\* The ledger call: showHighScores() run on the EEPROM with the global score.
CallShowHighScores(op) ==
  LET r == showHighScores(eeprom, score) IN
  /\ old' = eeprom
  /\ eeprom' = r.mem
  /\ log' = r.log
  /\ shown' = r.shown
  /\ lastOp' = op
  /\ calls' = calls + 1

\* loop(), lines 85-94: one poll of the keypad while waiting for '*'. With
\* lines 90-93 compiled in, '#' enters debugMode(), which first shows the
\* high scores (line 255) and then polls for the answer to "Reset scores?".
\* debugMode() never returns (its while condition is always true), so every
\* entry adds a frame; MaxDepth caps the frames modelled.
WaitKey(k) ==
  /\ UNCHANGED doorVars
  /\ UNCHANGED quizVars
  /\ pc = "waitKey"
  /\ IF k = "*"
       THEN /\ pc' = "asking"
            /\ UNCHANGED <<eeprom, score, depth, debugEnabled, old, log, shown, lastOp, calls>>
       ELSE IF k = "#" /\ debugEnabled /\ depth < MaxDepth
         THEN /\ CallShowHighScores("debug")
              /\ depth' = depth + 1
              /\ pc' = "debugPoll"
              /\ UNCHANGED <<score, debugEnabled>>
         ELSE UNCHANGED gameVars

\* A plausible slip: showHighScores() called in the body of the while loop.
GameLoopLedger(correct) ==
  /\ UNCHANGED doorVars
  /\ pc = "asking"
  /\ IF correct
       THEN /\ score < MaxScore
            /\ score' = score + 1
            /\ pc' = "asking"
            /\ LET r == showHighScores(eeprom, score + 1) IN
               /\ old' = eeprom
               /\ eeprom' = r.mem
               /\ log' = r.log
               /\ shown' = r.shown
               /\ lastOp' = "session"
               /\ calls' = calls + 1
       ELSE /\ score' = score
            /\ pc' = "sessionOver"
            /\ UNCHANGED <<eeprom, old, log, shown, lastOp, calls>>
  /\ right' = (IF correct THEN right + 1 ELSE right)
  /\ UNCHANGED <<depth, debugEnabled>>
  /\ UNCHANGED <<answer, headerLen, asked, input, keysSeen, verdict>>

\* loop(), lines 100-106 with gameLoop(), lines 126-160: one question, as
\* far as the ledger sees it (the question and the keys are in PrintQuestion,
\* GetInputKey and Judge below). A correct answer adds a point and the while
\* loop goes on; the first wrong one ends the session.
GameLoop(correct) ==
  /\ UNCHANGED doorVars
  /\ pc = "asking"
  /\ IF correct
       THEN /\ score < MaxScore
            /\ score' = score + 1
            /\ pc' = "asking"
       ELSE /\ score' = score
            /\ pc' = "sessionOver"
  /\ right' = (IF correct THEN right + 1 ELSE right)
  /\ UNCHANGED <<eeprom, depth, debugEnabled, old, log, shown, lastOp, calls>>
  /\ UNCHANGED <<answer, headerLen, asked, input, keysSeen, verdict>>

\* loop(), lines 108-114: the final score is shown and the ledger is called.
LoopShowHighScores ==
  /\ UNCHANGED doorVars
  /\ UNCHANGED quizVars
  /\ pc = "sessionOver"
  /\ CallShowHighScores("session")
  /\ pc' = "loopEnd"
  /\ UNCHANGED <<score, depth, debugEnabled>>

\* loop() returns, line 115: to main(), which calls it again, or into the
\* while loop of the debugMode() frame that called it (lines 267, 273).
LoopReturn ==
  /\ UNCHANGED doorVars
  /\ UNCHANGED quizVars
  /\ pc = "loopEnd"
  /\ pc' = IF depth = 0 THEN "loop" ELSE "debugPoll"
  /\ UNCHANGED <<eeprom, score, depth, debugEnabled, old, log, shown, lastOp, calls>>

\* debugMode(), lines 259-276: one poll of the keypad. '*' resets the five
\* slots and calls loop(); '#' calls loop() without resetting.
DebugPoll(k) ==
  /\ UNCHANGED doorVars
  /\ UNCHANGED quizVars
  /\ pc = "debugPoll"
  /\ IF k = "*"
       THEN LET r == ResetScores(eeprom) IN
            /\ old' = eeprom
            /\ eeprom' = r.mem
            /\ log' = r.log
            /\ lastOp' = "reset"
            /\ pc' = "loop"
            /\ UNCHANGED <<score, depth, debugEnabled, shown, calls>>
       ELSE IF k = "#"
         THEN /\ pc' = "loop"
              /\ UNCHANGED <<eeprom, score, depth, debugEnabled, old, log, shown, lastOp, calls>>
         ELSE UNCHANGED gameVars

GameNext ==
  \/ LoopEntry
  \/ \E k \in Keys : WaitKey(k)
  \/ \E c \in BOOLEAN : GameLoop(c)
  \/ LoopShowHighScores
  \/ LoopReturn
  \/ \E k \in Keys : DebugPoll(k)

\* ------------------------------------------------ the quiz of gameLoop()

\* Keys one call of getInput() reads before the model lets only '*' through.
MaxKeys == 3

\* Correct answers in a row before the model stops adding points.
MaxRight == 2

\* const int numAmount = 10;
numAmount == 10

\* Strings are sequences of characters. The three tables are parallel:
\* hexNums[i], decNums[i] and binNums[i] write the same number.
hexNums ==
  << <<"A", "A">>,
     <<"1", "2">>,
     <<"B", "6">>,
     <<"1", "4">>,
     <<"C", "9">>,
     <<"0", "9">>,
     <<"0", "D">>,
     <<"1", "B">>,
     <<"5", "8">>,
     <<"9", "6">> >>

decNums ==
  << <<"1", "7", "0">>,
     <<"1", "8">>,
     <<"1", "8", "2">>,
     <<"2", "0">>,
     <<"2", "0", "1">>,
     <<"9">>,
     <<"1", "3">>,
     <<"2", "7">>,
     <<"8", "8">>,
     <<"1", "5", "0">> >>

binNums ==
  << <<"1", "0", "1", "0", "1", "0", "1", "0">>,
     <<"1", "0", "0", "1", "0">>,
     <<"1", "0", "1", "1", "0", "1", "1", "0">>,
     <<"1", "0", "1", "0", "0">>,
     <<"1", "1", "0", "0", "1", "0", "0", "1">>,
     <<"1", "0", "0", "1">>,
     <<"1", "1", "0", "1">>,
     <<"1", "1", "0", "1", "1">>,
     <<"1", "0", "1", "1", "0", "0", "0">>,
     <<"1", "0", "0", "1", "0", "1", "1", "0">> >>

\* The lengths of hexHead "HEX: 0x", decHead "DEC: " and binHead "BIN: ".
HeadLen(fmt) == IF fmt = 1 THEN 7 ELSE 5

\* A plausible slip: random(min, max) taken to include max.
RandomInclusive(lo, hi) == lo..hi

\* random(min, max): a number from min to max - 1.
Random(lo, hi) == lo..(hi - 1)

\* tbl[i - 1] of the sketch, the tables here being indexed from 1. An index
\* outside the table reads what lies behind it.
TableAt(tbl, i) == IF i \in DOMAIN tbl THEN tbl[i] ELSE <<"?">>

\* The table a format number selects in the switch statements.
Table(fmt) == IF fmt = 1 THEN hexNums ELSE IF fmt = 2 THEN decNums ELSE binNums

\* printQuestion(), lines 174-220. The first switch prints the question, the
\* second sets headerLen (decHead.length() for BIN too, line 215) and answer;
\* their default branches do nothing.
PrintQuestion(numFormatQ, numFormatA, numIdx) ==
  /\ UNCHANGED doorVars
  /\ pc = "asking"
  /\ numFormatQ \in Random(1, 4)
  /\ numFormatA \in Random(1, 4) \ {numFormatQ}
  /\ numIdx \in Random(1, numAmount + 1)
  /\ asked' = [q |-> numFormatQ, a |-> numFormatA, idx |-> numIdx - 1,
               text |-> IF numFormatQ \in 1..3
                          THEN TableAt(Table(numFormatQ), numIdx) ELSE <<>>]
  /\ IF numFormatA \in 1..3
       THEN /\ answer' = TableAt(Table(numFormatA), numIdx)
            /\ headerLen' = HeadLen(IF numFormatA = 3 THEN 2 ELSE numFormatA)
       ELSE UNCHANGED <<answer, headerLen>>
  /\ input' = <<>>
  /\ keysSeen' = <<>>
  /\ pc' = "getInput"
  /\ UNCHANGED <<eeprom, score, depth, debugEnabled, old, log, shown, lastOp, calls,
                 verdict, right>>

\* A plausible slip: else if (key != '*'), the test for NO_KEY left out.
InputAfterNoKeyTest(inp, key) ==
  IF key = "#"
    THEN IF Len(inp) > 0 THEN SubSeq(inp, 1, Len(inp) - 1) ELSE inp
    ELSE IF key # "*" THEN Append(inp, key) ELSE inp

\* getInput(), lines 235-247: what one key does to input.
InputAfter(inp, key) ==
  IF key = "#"
    THEN IF Len(inp) > 0 THEN SubSeq(inp, 1, Len(inp) - 1) ELSE inp
    ELSE IF key # "none" /\ key # "*" THEN Append(inp, key) ELSE inp

\* getInput(), lines 233-249: one pass of while(key != '*'); '*' ends the
\* loop and input is returned to gameLoop().
GetInputKey(key) ==
  /\ UNCHANGED doorVars
  /\ pc = "getInput"
  /\ key = "*" \/ Len(keysSeen) < MaxKeys
  /\ input' = InputAfter(input, key)
  /\ keysSeen' = Append(keysSeen, key)
  /\ pc' = IF key = "*" THEN "judge" ELSE "getInput"
  /\ UNCHANGED <<eeprom, score, depth, debugEnabled, old, log, shown, lastOp, calls,
                 answer, headerLen, asked, verdict, right>>

\* gameLoop(), line 138: the else branch of if(input != answer).
Matches(inp, ans) == inp = ans

\* gameLoop(), lines 136-159, and the while loop of loop(), lines 100-106:
\* the answer is judged; a correct one adds a point and gameLoop() is called
\* again, a wrong one ends the while loop.
Judge ==
  /\ UNCHANGED doorVars
  /\ pc = "judge"
  /\ IF Matches(input, answer)
       THEN /\ score < MaxScore
            /\ right < MaxRight
            /\ verdict' = "Correct!"
            /\ score' = score + 1
            /\ right' = right + 1
            /\ pc' = "asking"
       ELSE /\ verdict' = "Incorrect!"
            /\ pc' = "sessionOver"
            /\ UNCHANGED <<score, right>>
  /\ input' = <<>>
  /\ keysSeen' = <<>>
  /\ UNCHANGED <<eeprom, depth, debugEnabled, old, log, shown, lastOp, calls,
                 answer, headerLen, asked>>

\* ------------------------------------------- Door_Operation_With_RFID

\* byte validUIDArray[4] = {0xF9,0x6C,0x29,0xA4};
validUIDArray == <<249, 108, 41, 164>>

\* The cards presented to the reader: the valid tag, tags that differ from it
\* in one byte (by the lowest or by the highest bit), and a blank one.
CardUIDs ==
  {validUIDArray, <<0, 0, 0, 0>>} \cup
  { [validUIDArray EXCEPT ![k] = (validUIDArray[k] + d) % 256] :
      k \in 1..4, d \in {1, 128} }

NoCard ==
  [uid |-> <<0, 0, 0, 0>>, auth1 |-> FALSE, read1 |-> FALSE,
   auth2 |-> FALSE, read2 |-> FALSE]

\* The exclusive or of two bytes, bit by bit.
RECURSIVE XorBits(_, _, _)
XorBits(a, b, n) ==
  IF n = 0 THEN 0
  ELSE (((a % 2) + (b % 2)) % 2) + 2 * XorBits(a \div 2, b \div 2, n - 1)

\* A plausible slip: a 16-bit unsigned int, which holds two of the four bytes.
XorWord16(x, y) == [i \in 1..4 |-> IF i <= 2 THEN XorBits(x[i], y[i], 8) ELSE 0]

\* *inputID ^ *validUID, line 298: the exclusive or of two 32-bit unsigned
\* ints, each given by its four bytes in memory.
XorWord(x, y) == [i \in 1..4 |-> XorBits(x[i], y[i], 8)]

\* result != 0, line 299.
NonZero(w) == \E i \in 1..4 : w[i] # 0

\* A plausible slip: motion seen does not restart the countdown.
PollTimeoutNoReset(t, pir) == t - 1

\* door_status(), lines 163-167: timeout -= 1; if(pirStat == HIGH) timeout = 5.
PollTimeout(t, pir) == IF pir = 1 THEN 5 ELSE t - 1

\* A plausible slip: the messages are published without the test of
\* WiFi.status().
PublishAlways(tr, wifi, n) ==
  tr \o <<IF wifi THEN "WL_CONNECTED" ELSE "WL_DISCONNECTED">>
     \o [i \in 1..n |-> "publish"]

\* if(WiFi.status() == WL_CONNECTED){ client.publish(...); ... }, lines
\* 289-291, 300-303 and 311-314: the status read and the n messages
\* published when it is WL_CONNECTED, added to the trace tr.
Publish(tr, wifi, n) ==
  tr \o <<IF wifi THEN "WL_CONNECTED" ELSE "WL_DISCONNECTED">>
     \o (IF wifi THEN [i \in 1..n |-> "publish"] ELSE <<>>)

DoorInit ==
  /\ dpc = "setup"
  /\ servo = -1
  /\ pos = 0
  /\ timeout = 0
  /\ pirStat = 0
  /\ lowRun = 0
  /\ moved = FALSE
  /\ offline_timer = 0
  /\ checks = 0
  /\ card = NoCard
  /\ smashed = FALSE
  /\ dtrace = <<>>

\* The board restarts after an exception: the globals are initialised again
\* (the servo is not moved by a restart).
Restart ==
  /\ dpc' = "setup"
  /\ pos' = 0
  /\ timeout' = 0
  /\ pirStat' = 0
  /\ lowRun' = 0
  /\ moved' = FALSE
  /\ offline_timer' = 0
  /\ checks' = 0
  /\ card' = NoCard
  /\ smashed' = FALSE
  /\ dtrace' = <<>>

\* loop() returns and is called again; after strcpy() has run past its
\* buffers the return may instead end in an exception.
LoopReturns(tr) ==
  \/ /\ dpc' = "loop"
     /\ dtrace' = tr
     /\ smashed' = FALSE
     /\ UNCHANGED <<servo, pos, timeout, pirStat, lowRun, moved, offline_timer, checks, card>>
  \/ /\ smashed
     /\ Restart
     /\ UNCHANGED servo

\* setup(), lines 111-128, up to the call of connect_wifi(), whose first
\* lines (67-72) set offline_timer. A display that fails to start hangs the
\* sketch in for(;;).
Setup(displayOk) ==
  /\ UNCHANGED gameVars
  /\ dpc = "setup"
  /\ IF displayOk
       THEN /\ dpc' = "connect_wifi"
            /\ offline_timer' = 15
       ELSE /\ dpc' = "hang"
            /\ UNCHANGED offline_timer
  /\ checks' = 0
  /\ UNCHANGED <<servo, pos, timeout, pirStat, lowRun, moved, card, smashed, dtrace>>

\* connect_wifi(), lines 75-98: one test of WiFi.status() != WL_CONNECTED and,
\* when not connected, the body of the while loop.
connect_wifi(connected) ==
  /\ UNCHANGED gameVars
  /\ dpc = "connect_wifi"
  /\ checks' = checks + 1
  /\ IF connected
       THEN /\ dpc' = "setup_close"
            /\ dtrace' = <<"online">>
            /\ UNCHANGED offline_timer
       ELSE IF offline_timer = 0
         THEN /\ dpc' = "setup_close"
              /\ dtrace' = <<"offline">>
              /\ UNCHANGED offline_timer
         ELSE /\ offline_timer' = offline_timer - 1
              /\ UNCHANGED <<dpc, dtrace>>
  /\ UNCHANGED <<servo, pos, timeout, pirStat, lowRun, moved, card, smashed>>

\* setup(), line 129: connect_wifi() has returned (its local is gone) and
\* door_status(false) closes the door, lines 137-148.
SetupClose ==
  /\ UNCHANGED gameVars
  /\ dpc = "setup_close"
  /\ servo' = 0
  /\ pos' = -1
  /\ dpc' = "loop"
  /\ dtrace' = <<>>
  /\ offline_timer' = 0
  /\ checks' = 0
  /\ UNCHANGED <<timeout, pirStat, lowRun, moved, card, smashed>>

\* loop(), lines 191-209: is a new card present, and can its serial be read.
LoopPoll(present, serial, u) ==
  /\ UNCHANGED gameVars
  /\ dpc = "loop"
  /\ IF present /\ serial
       THEN /\ dpc' = "auth1"
            /\ card' = [NoCard EXCEPT !.uid = u]
            /\ dtrace' = <<"card">>
       ELSE /\ dpc' = "loop"
            /\ card' = NoCard
            /\ dtrace' = <<>>
  /\ UNCHANGED <<servo, pos, timeout, pirStat, lowRun, moved, offline_timer, checks, smashed>>

\* A plausible slip: a failure branch that returns without releasing the card.
CardStepNoHalt(at, field, next, ok) ==
  /\ UNCHANGED gameVars
  /\ dpc = at
  /\ IF ok
       THEN /\ dpc' = next
            /\ card' = [card EXCEPT ![field] = TRUE]
            /\ UNCHANGED dtrace
       ELSE /\ dpc' = "loop"
            /\ dtrace' = dtrace \o <<field \o " failed">>
            /\ UNCHANGED card
  /\ UNCHANGED <<servo, pos, timeout, pirStat, lowRun, moved, offline_timer, checks, smashed>>

\* One authentication or read of loop() (lines 212-219, 221-228, 251-258,
\* 260-267): on failure HaltA, StopCrypto1 and return.
CardStep(at, field, next, ok) ==
  /\ UNCHANGED gameVars
  /\ dpc = at
  /\ IF ok
       THEN /\ dpc' = next
            /\ card' = [card EXCEPT ![field] = TRUE]
            /\ UNCHANGED dtrace
       ELSE /\ dpc' = "loop"
            /\ dtrace' = dtrace \o <<field \o " failed", "PICC_HaltA", "PCD_StopCrypto1">>
            /\ UNCHANGED card
  /\ UNCHANGED <<servo, pos, timeout, pirStat, lowRun, moved, offline_timer, checks, smashed>>

Auth1(ok) == CardStep("auth1", "auth1", "read1", ok)

Read1(ok) == CardStep("read1", "read1", "auth2", ok)

Auth2(ok) == CardStep("auth2", "auth2", "read2", ok)

Read2(ok) == CardStep("read2", "read2", "report", ok)

\* loop(), lines 231-291: the names are copied, the broker is connected to and
\* the login is published when WiFi is connected. When block 4 holds no space
\* name_first is left without its terminator and strcpy() reads past it: the
\* copy ends at a NUL that happens to follow ("ok"), or runs over the end of
\* name_full ("smash"), or ends in an exception ("trap").
Report(wifi, hasSpace, overrun) ==
  /\ UNCHANGED gameVars
  /\ dpc = "report"
  /\ overrun \in (IF hasSpace THEN {"ok"} ELSE {"ok", "smash", "trap"})
  /\ IF overrun = "trap"
       THEN Restart /\ UNCHANGED servo
       ELSE /\ dpc' = "compare"
            /\ smashed' = (overrun = "smash")
            /\ dtrace' = Publish(dtrace, wifi, 1)
            /\ UNCHANGED <<servo, pos, timeout, pirStat, lowRun, moved, offline_timer, checks, card>>

\* loop(), lines 295-316: the UID is compared with the valid one. The two
\* byte arrays are read through unsigned int pointers: the load gives the
\* four bytes stored, or ends in an alignment exception. An invalid card is
\* reported and loop() goes on to lines 318-320; a valid one is reported and
\* door_status(true) opens the door (lines 150-154).
Compare(wifi, load) ==
  /\ UNCHANGED gameVars
  /\ dpc = "compare"
  /\ IF load = "trap"
       THEN Restart /\ UNCHANGED servo
       ELSE IF NonZero(XorWord(card.uid, validUIDArray))
         THEN /\ LoopReturns(Publish(dtrace, wifi, 2)
                   \o <<"invalid", "disconnect", "PICC_HaltA", "PCD_StopCrypto1">>)
         ELSE /\ dpc' = "hold"
              /\ dtrace' = Publish(dtrace, wifi, 2) \o <<"door_status(true)">>
              /\ servo' = 180
              /\ pos' = 181
              /\ timeout' = 5
              /\ lowRun' = 0
              /\ moved' = FALSE
              /\ UNCHANGED <<pirStat, offline_timer, checks, card, smashed>>

\* door_status(true), lines 155-176: one pass of while(timeout != 0).
HoldPoll(pir) ==
  /\ UNCHANGED gameVars
  /\ dpc = "hold"
  /\ timeout # 0
  /\ pirStat' = pir
  /\ timeout' = PollTimeout(timeout, pir)
  /\ lowRun' = (IF pir = 1 THEN 0 ELSE lowRun + 1)
  /\ moved' = (moved \/ pir = 1)
  /\ UNCHANGED <<dpc, servo, pos, offline_timer, checks, card, smashed, dtrace>>

\* A plausible slip: door_status(true) without the closing call of line 178.
HoldExitNoClose ==
  /\ UNCHANGED gameVars
  /\ dpc = "hold"
  /\ timeout = 0
  /\ \/ /\ dpc' = "loop"
        /\ smashed' = FALSE
        /\ dtrace' = dtrace \o <<"disconnect", "PICC_HaltA", "PCD_StopCrypto1">>
        /\ UNCHANGED <<servo, pos, timeout, pirStat, lowRun, moved, offline_timer, checks, card>>
     \/ /\ smashed
        /\ Restart
        /\ UNCHANGED servo

\* door_status(true), line 178: the while loop has ended and door_status(false)
\* closes the door (lines 137-148); loop() goes on to lines 318-320.
HoldExit ==
  /\ UNCHANGED gameVars
  /\ dpc = "hold"
  /\ timeout = 0
  /\ \/ /\ dpc' = "loop"
        /\ smashed' = FALSE
        /\ servo' = 0
        /\ pos' = -1
        /\ dtrace' = dtrace \o <<"door_status(false)", "disconnect", "PICC_HaltA", "PCD_StopCrypto1">>
        /\ UNCHANGED <<timeout, pirStat, lowRun, moved, offline_timer, checks, card>>
     \/ /\ smashed
        /\ Restart
        /\ servo' = 0

DoorNext ==
  \/ \E ok \in BOOLEAN : Setup(ok)
  \/ \E c \in BOOLEAN : connect_wifi(c)
  \/ SetupClose
  \/ \E p \in BOOLEAN, s \in BOOLEAN, u \in CardUIDs : LoopPoll(p, s, u)
  \/ \E ok \in BOOLEAN : Auth1(ok)
  \/ \E ok \in BOOLEAN : Read1(ok)
  \/ \E ok \in BOOLEAN : Auth2(ok)
  \/ \E ok \in BOOLEAN : Read2(ok)
  \/ \E w \in BOOLEAN, sp \in BOOLEAN, o \in {"ok", "smash", "trap"} : Report(w, sp, o)
  \/ \E w \in BOOLEAN, l \in {"value", "trap"} : Compare(w, l)
  \/ \E pir \in {0, 1} : HoldPoll(pir)
  \/ HoldExit

\* The game sketch runs; the door sketch is not on this board.
Init == GameInit /\ DoorInit

Next == GameNext

\* The game sketch.
Spec == Init /\ [][Next]_vars

\* ------------------------------------------------- the ledger on its own

\* Final scores tried on the ledger: small ones, and ones around the width
\* of an EEPROM cell.
ScoreSamples == (0..MaxScore) \cup {254, 255, 256, 257, 262, 511, 512, 1000}

\* loop(), lines 80-111, as far as the ledger sees it: a session in which s
\* answers were correct before the first wrong one.
PlaySession(s) ==
  /\ UNCHANGED doorVars
  /\ UNCHANGED quizVars
  /\ pc = "loop"
  /\ score' = s
  /\ pc' = "sessionOver"
  /\ old' = eeprom
  /\ log' = <<>>
  /\ lastOp' = "none"
  /\ calls' = 0
  /\ UNCHANGED <<eeprom, depth, debugEnabled, shown>>

LedgerNext ==
  \/ \E s \in ScoreSamples : PlaySession(s)
  \/ LoopShowHighScores
  \/ LoopReturn

\* showHighScores() applied to every sampled board and final score.
SpecLedger == Init /\ [][LedgerNext]_vars

\* The game sketch after setup(), as compiled (debugMode() is not called), on
\* an erased EEPROM.
InitQuiz ==
  /\ eeprom = [a \in Addrs |-> 255]
  /\ score = 0
  /\ pc = "loop"
  /\ depth = 0
  /\ debugEnabled = FALSE
  /\ old = eeprom
  /\ log = <<>>
  /\ shown = <<>>
  /\ lastOp = "none"
  /\ calls = 0
  /\ answer = <<>>
  /\ headerLen = 0
  /\ asked = [q |-> 0, a |-> 0, idx |-> 0, text |-> <<>>]
  /\ input = <<>>
  /\ keysSeen = <<>>
  /\ verdict = "none"
  /\ right = 0
  /\ DoorInit

QuizNext ==
  \/ LoopEntry
  \/ \E k \in Keys : WaitKey(k)
  \/ \E q \in 1..4, a \in 1..4, i \in 1..(numAmount + 1) : PrintQuestion(q, a, i)
  \/ \E k \in Keys : GetInputKey(k)
  \/ Judge
  \/ LoopShowHighScores
  \/ LoopReturn

\* The game sketch with every question and every key of a session.
SpecQuiz == InitQuiz /\ [][QuizNext]_vars

\* The door sketch after power-up, on a board that does not run the game.
InitDoor ==
  /\ eeprom = [a \in Addrs |-> 255]
  /\ score = 0
  /\ pc = "loop"
  /\ depth = 0
  /\ debugEnabled = FALSE
  /\ old = eeprom
  /\ log = <<>>
  /\ shown = <<>>
  /\ lastOp = "none"
  /\ calls = 0
  /\ answer = <<>>
  /\ headerLen = 0
  /\ asked = [q |-> 0, a |-> 0, idx |-> 0, text |-> <<>>]
  /\ input = <<>>
  /\ keysSeen = <<>>
  /\ verdict = "none"
  /\ right = 0
  /\ dpc = "setup"
  /\ servo = -1
  /\ pos = 0
  /\ timeout = 0
  /\ pirStat = 0
  /\ lowRun = 0
  /\ moved = FALSE
  /\ offline_timer = 0
  /\ checks = 0
  /\ card = NoCard
  /\ smashed = FALSE
  /\ dtrace = <<>>

\* The door sketch.
SpecDoor == InitDoor /\ [][DoorNext]_vars

\* The door sketch on a processor that keeps running: the hold loop of
\* door_status(true) goes on polling, and leaves when its condition fails.
SpecDoorFair ==
  /\ InitDoor
  /\ [][DoorNext]_vars
  /\ WF_vars(\E pir \in {0, 1} : HoldPoll(pir))
  /\ WF_vars(HoldExit)

\* ------------------------------------------------------------ properties

Sorted(L) == \A i \in 1..(Len(L) - 1) : L[i] >= L[i + 1]

Writes(l) == SelectSeq(l, LAMBDA e : e[1] = "write")

Notified(l) == \E i \in 1..Len(l) : l[i] = <<"lcd", "New High Score!">>

\* L with s inserted at its rank and the last entry dropped.
InsertRanked(L, s) ==
  LET above == Cardinality({i \in 1..Len(L) : L[i] >= s}) IN
  [i \in 1..Len(L) |->
     IF i <= above THEN L[i] ELSE IF i = above + 1 THEN s ELSE L[i - 1]]

\* C1: once the five slots are in non-ascending order, every step of the
\* sketch (a recordSession call with any final score included) leaves them in
\* non-ascending order.
C1_OrderingKept ==
  [][Sorted(Slots(eeprom)) => Sorted(Slots(eeprom'))]_vars

C1_Witness ==
  /\ lastOp = "session"
  /\ Slots(old) = highscore
  /\ score = 6
  /\ Slots(eeprom) = <<10, 7, 6, 6, 6>>

\* C2: after a recordSession call on a sorted board with a score that beats
\* at least one slot, the board is the old one with the score inserted at its
\* rank, the lower entries shifted down by one and the old last entry dropped.
C2_Displacement ==
  (lastOp = "session" /\ Sorted(Slots(old)) /\ score > old[4])
    => Slots(eeprom) = InsertRanked(Slots(old), score)

\* C3: a recordSession call emits "New High Score!" exactly when the final
\* score is greater than slot 0 as it was at the call, and before any write.
C3_NewHighScore ==
  lastOp = "session" =>
    /\ Notified(log) <=> score > old[0]
    /\ Notified(log) => log[1] = <<"lcd", "New High Score!">>

\* C4: a recordSession call with a score not greater than slot 4 writes
\* nothing and leaves the EEPROM as it was.
C4_NonQualifying ==
  (lastOp = "session" /\ score <= old[4])
    => (eeprom = old /\ Writes(log) = <<>>)

C4_Witness ==
  /\ lastOp = "session"
  /\ score = old[4]
  /\ score > 0
  /\ ~Sorted(Slots(old))


\* C5: no step of the sketch (sessions, ledger calls, renders, resets) writes
\* an EEPROM address other than 0..4; cell 5 keeps its value.
C5_OnlySlotsWritten ==
  [][ /\ \A a \in Addrs \ (0..4) : eeprom'[a] = eeprom[a]
      /\ \A k \in 1..Len(log') : log'[k][1] = "write" => log'[k][2] \in 0..4
      /\ DOMAIN eeprom' = DOMAIN eeprom ]_vars

C5_Witness ==
  /\ depth > 0
  /\ lastOp = "session"
  /\ Len(Writes(log)) > 1
  /\ Slots(old) = highscore

\* C6: after the reset of debugMode() (key '*'), slots 0..4 hold 10,7,5,4,2.
C6_Reset ==
  lastOp = "reset" => Slots(eeprom) = <<10, 7, 5, 4, 2>>

C6_Witness ==
  /\ lastOp = "reset"
  /\ \A i \in 1..5 : Slots(old)[i] # highscore[i]

\* C7: every showHighScores() call prints the five slots as stored; the call
\* of debugMode() writes nothing and leaves the EEPROM as it was, and when
\* the values on display are the stored ones it shows the same values again.
C7_RenderPure ==
  [][ calls' = calls + 1 =>
        /\ shown' = Slots(eeprom')
        /\ lastOp' = "debug" =>
              /\ eeprom' = eeprom
              /\ Writes(log') = <<>>
              /\ shown = Slots(eeprom) => shown' = shown ]_vars

C7_Witness ==
  /\ lastOp = "debug"
  /\ depth = 2
  /\ shown = Slots(eeprom)
  /\ Slots(eeprom) = <<10, 7, 6, 6, 6>>

\* C8: with debugMode() not compiled in, a pass of loop() calls
\* showHighScores() exactly once, after gameLoop() has returned false, and
\* not while the questions are being asked.
C8_OneLedgerCall ==
  ~debugEnabled =>
    /\ calls <= 1
    /\ pc \in {"waitKey", "asking", "sessionOver"} => calls = 0
    /\ pc = "loopEnd" => (calls = 1 /\ lastOp = "session")

C8_Witness ==
  /\ ~debugEnabled
  /\ pc = "loopEnd"
  /\ score = 3
  /\ calls = 1


\* C9: the open door is closed only after 5 polls in a row have read no
\* motion, and while it is held open the countdown is 5 less the number of
\* polls without motion since the last one that read motion.
C9_HeldWhileMotion ==
  [][ /\ (servo = 180 /\ servo' # 180) => (lowRun >= 5 /\ pirStat = 0)
      /\ dpc' = "hold" => timeout' = 5 - lowRun' ]_vars

C9_Witness ==
  /\ dpc = "loop"
  /\ servo = 0
  /\ moved
  /\ lowRun = 5
  /\ \E i \in 1..Len(dtrace) : dtrace[i] = "door_status(false)"

\* C10: door_status(true) is reached only with both authentications and both
\* reads done and the four UID bytes of the card equal to F9 6C 29 A4.
C10_OnlyValidTag ==
  (dpc = "hold" \/ servo = 180 \/ \E i \in 1..Len(dtrace) : dtrace[i] = "door_status(true)")
    => /\ card.auth1 /\ card.read1 /\ card.auth2 /\ card.read2
       /\ card.uid = <<249, 108, 41, 164>>

C10_Witness ==
  /\ dpc = "hold"
  /\ card.uid = validUIDArray
  /\ dtrace[Len(dtrace)] = "door_status(true)"

\* The highest index among the slots of e that hold at least s: where the
\* scan from slot 4 upwards stops (-1 when no slot does).
StopSlot(e, s) ==
  IF \A i \in 0..4 : e[i] < s THEN -1
  ELSE CHOOSE i \in 0..4 : e[i] >= s /\ \A j \in (i + 1)..4 : e[j] < s

\* C11: a recordSession call writes the slots in the order 4, 3, ..., and
\* neither writes nor changes the first slot it meets (from slot 4 upwards)
\* that holds at least the final score, nor any slot of higher rank.
C11_ScanStop ==
  lastOp = "session" =>
    LET k == StopSlot(old, score)
        w == Writes(log) IN
    /\ \A j \in 0..k : eeprom[j] = old[j]
    /\ \A n \in 1..Len(w) : w[n][2] > k
    /\ \A n \in 1..(Len(w) - 1) : w[n][2] >= w[n + 1][2]

C11_Witness ==
  /\ lastOp = "session"
  /\ StopSlot(old, score) = 1
  /\ old[0] < score
  /\ eeprom[0] = old[0]
  /\ eeprom[2] = score

\* The addresses a log writes to.
Written(l) == {Writes(l)[n][2] : n \in 1..Len(Writes(l))}

\* C13: every value a recordSession call writes is a byte; a final score in
\* 0..255 is stored as it is, and a final score above 255 is stored capped,
\* as no less than what a score of 255 stores.
C13_StoredValue ==
  lastOp = "session" =>
    /\ \A n \in 1..Len(Writes(log)) : Writes(log)[n][3] \in 0..255
    /\ \A a \in Written(log) :
         IF score <= 255 THEN eeprom[a] = score ELSE eeprom[a] >= 255

\* C17: a recordSession call with a final score in 0..255 changes a slot only
\* when the score is greater than the value the slot holds, and then to the
\* score: no slot ever goes down.
C17_NeverWorse ==
  [][ (calls' = calls + 1 /\ lastOp' = "session" /\ score <= 255) =>
        \A i \in 0..4 :
          /\ eeprom'[i] >= eeprom[i]
          /\ eeprom'[i] # eeprom[i] => (score > eeprom[i] /\ eeprom'[i] = score) ]_vars

C17_Witness ==
  /\ lastOp = "session"
  /\ score = 255
  /\ Slots(old) = <<10, 7, 6, 6, 6>>
  /\ Slots(eeprom) = <<255, 255, 255, 255, 255>>

\* The string the keys ks leave, key by key: '#' deletes the last character
\* (nothing when there is none), '*' and no-key add nothing, any other key
\* is appended.
RECURSIVE Entered(_)
Entered(ks) ==
  IF ks = <<>> THEN <<>>
  ELSE LET before == Entered(SubSeq(ks, 1, Len(ks) - 1))
           k == ks[Len(ks)]
       IN  CASE k = "#" -> IF before = <<>> THEN <<>>
                           ELSE SubSeq(before, 1, Len(before) - 1)
             [] k \in {"*", "none"} -> before
             [] OTHER -> before \o <<k>>

\* C12: the score is set to 0 when a session starts, changes otherwise only
\* by +1 on a correct answer, a wrong answer ends the session without
\* changing it, and the score the session ends with is the number of correct
\* answers given in that session.
C12_SessionScore ==
  /\ [](pc = "sessionOver" => score = right)
  /\ [][ /\ (pc = "loop" /\ pc' = "waitKey" => score' = 0)
         /\ (pc = "judge" /\ input = answer => score' = score + 1 /\ pc' = "asking")
         /\ (pc = "judge" /\ input # answer => score' = score /\ pc' = "sessionOver")
         /\ (score' # score => pc \in {"loop", "judge"}) ]_vars

\* A later session (the ledger has been shown before) ends on a wrong answer
\* after one correct answer.
C12_Witness ==
  pc = "sessionOver" /\ shown # <<>> /\ verdict = "Incorrect!" /\ score = 1 /\ right = 1

\* C14: while keys are read the input is the string the keys so far leave
\* and holds neither '*' nor '#'; getInput() returns at the first '*'; and
\* the answer is counted correct exactly when the returned string equals the
\* expected answer.
C14_AnswerEntry ==
  /\ [](pc \in {"getInput", "judge"} =>
          /\ input = Entered(keysSeen)
          /\ \A i \in 1..Len(input) : input[i] \notin {"*", "#", "none"}
          /\ \A i \in 1..Len(keysSeen) :
               (keysSeen[i] = "*") <=> (pc = "judge" /\ i = Len(keysSeen)))
  /\ [][pc = "judge" =>
          /\ (verdict' = "Correct!") <=> (input = answer)
          /\ (verdict' = "Incorrect!") <=> (input # answer)
          /\ (score' = score + 1) <=> (input = answer) ]_vars

\* getInput() has returned the expected answer "AA", typed after a '#' on
\* the empty string.
C14_Witness ==
  /\ pc = "judge"
  /\ keysSeen = <<"#", "A", "A", "*">>
  /\ input = <<"A", "A">>
  /\ input = answer

\* C15: for a question that has been asked, both formats are hex, dec or
\* bin, the answer format differs from the question format, the index is
\* within 0..9, the value shown is the entry of the question table and the
\* expected answer the entry of the answer table at that index.
C15_WellFormed ==
  asked.q # 0 =>
    /\ asked.q \in 1..3
    /\ asked.a \in 1..3
    /\ asked.a # asked.q
    /\ asked.idx \in 0..9
    /\ asked.text = Table(asked.q)[asked.idx + 1]
    /\ answer = Table(asked.a)[asked.idx + 1]
    /\ headerLen \in {5, 7}

\* The last entry of the tables: binary 10010110 is asked, hex 96 expected.
C15_Witness ==
  /\ pc = "getInput"
  /\ asked = [q |-> 3, a |-> 1, idx |-> 9,
              text |-> <<"1", "0", "0", "1", "0", "1", "1", "0">>]
  /\ answer = <<"9", "6">>

\* The index of the last e in the trace tr, 0 when there is none.
LastOf(tr, e) ==
  IF \E i \in 1..Len(tr) : tr[i] = e
    THEN CHOOSE i \in 1..Len(tr) : tr[i] = e /\ \A j \in (i + 1)..Len(tr) : tr[j] # e
    ELSE 0

\* C16: the door is open only inside the hold loop, so it is closed whenever
\* loop() polls for a card; leaving the hold loop closes it, a pass of loop()
\* that opened the door has closed it afterwards, and once the sensor has
\* read no motion on 5 polls in a row the open door is closed.
C16_EndsClosed ==
  /\ [](servo = 180 => dpc = "hold")
  /\ [](dpc = "loop" => /\ servo = 0
                        /\ LastOf(dtrace, "door_status(true)")
                             <= LastOf(dtrace, "door_status(false)"))
  /\ [][dpc = "hold" /\ dpc' # "hold" => servo' = 0]_vars
  /\ [](dpc = "hold" /\ lowRun >= 5 => timeout = 0)
  /\ ((dpc = "hold" /\ lowRun >= 5) ~> (servo = 0))

\* loop() has returned after a door cycle in which motion was seen: the door
\* was opened, held, and is closed.
C16_Witness ==
  /\ dpc = "loop"
  /\ servo = 0
  /\ moved
  /\ lowRun = 5
  /\ LastOf(dtrace, "door_status(true)") > 0
  /\ LastOf(dtrace, "door_status(false)") > LastOf(dtrace, "door_status(true)")

\* C18: connect_wifi() tests the status at most 16 times: it is still
\* waiting only before the 16th test, and it gives up with exactly 16 tests
\* made; every message published follows a status read of WL_CONNECTED in
\* the same if statement, so none is published while WiFi is not connected.
C18_WifiTerminates ==
  /\ checks <= 16
  /\ (dpc = "connect_wifi" => checks < 16 /\ offline_timer = 15 - checks)
  /\ (dpc = "setup_close" /\ dtrace = <<"offline">> => checks = 16)
  /\ \A i \in 1..Len(dtrace) :
       dtrace[i] = "publish" =>
         \E j \in 1..(i - 1) :
           /\ dtrace[j] = "WL_CONNECTED"
           /\ \A k \in (j + 1)..(i - 1) : dtrace[k] = "publish"

\* The network never connected: connect_wifi() has returned into offline
\* mode on its 16th test.
C18_Witness ==
  dpc = "setup_close" /\ dtrace = <<"offline">> /\ checks = 16 /\ offline_timer = 0

\* With WiFi down at all three tests a valid card is read and the door is
\* open, nothing having been published.
C18_OfflineDoor ==
  /\ dpc = "hold"
  /\ servo = 180
  /\ dtrace = <<"card", "WL_DISCONNECTED", "WL_DISCONNECTED", "door_status(true)">>

\* C19: when loop() has returned after reading a card's serial, the last
\* two reader calls of the pass are PICC_HaltA and then PCD_StopCrypto1.
C19_CardReleased ==
  dpc = "loop" /\ dtrace # <<>> =>
    /\ dtrace[1] = "card"
    /\ Len(dtrace) >= 3
    /\ dtrace[Len(dtrace) - 1] = "PICC_HaltA"
    /\ dtrace[Len(dtrace)] = "PCD_StopCrypto1"

\* loop() has returned because the second read failed.
C19_Witness ==
  /\ dpc = "loop"
  /\ dtrace = <<"card", "read2 failed", "PICC_HaltA", "PCD_StopCrypto1">>

====
